---- MODULE Spec2Model ----
(***************************************************************************)
(* One process invocation of info_tech_cli (src/info_tech_cli/cli.py).     *)
(*                                                                         *)
(* main() calls the click group `cli` in click's standalone mode.  The     *)
(* model follows the call chain the decorators of cli.py set up:           *)
(*   main -> cli.main (group make_context, eager --version / --help)       *)
(*        -> resolve_command -> cli callback (credential check)            *)
(*        -> sub-command make_context (option parsing, Choice validation)  *)
(*        -> create / delete / validate / version callback                 *)
(*        -> create_module / delete_module                                 *)
(*        -> click's standalone exception clauses -> main's except clauses *)
(* The command line is a sequence of tokens; the output and the handler    *)
(* calls are recorded, in order, in `events`.                              *)
(***************************************************************************)
EXTENDS Integers, Sequences, FiniteSets, TLC

VARIABLES argv, environ, pc, cmd, args, params, groupObj, ctxObj, events,
          exc, exitCode

vars == <<argv, environ, pc, cmd, args, params, groupObj, ctxObj, events,
          exc, exitCode>>

-----------------------------------------------------------------------------
(* Bounds and input alphabets                                              *)

\* number of tokens that may follow the first token of the command line
MaxArgs == 3

\* first tokens: the four sub-commands, an unknown command, the two group
\* options and an option the group does not declare
FirstTokens ==
    {"create", "delete", "validate", "version", "deploy",
     "--version", "--help", "-d"}

\* tokens that may follow
ArgTokens ==
    {"python-basics", "module-x", "advanced", "expert", "en",
     "-d", "--language", "-t", "--category", "-i", "--force", "--remove-repo"}

\* the tokens of the alphabets that start with "-" (click's option prefix)
DashTokens ==
    {"--version", "--help", "--template", "-t", "--category", "-c",
     "--difficulty", "-d", "--language", "-l", "--interactive", "-i",
     "--force", "-f", "--remove-repo"}

RECURSIVE SeqsUpTo(_, _)
SeqsUpTo(S, n) ==
    IF n = 0 THEN {<<>>}
    ELSE LET shorter == SeqsUpTo(S, n - 1)
         IN  shorter \cup {Append(s, t) : s \in {x \in shorter : Len(x) = n - 1}, t \in S}

Argvs ==
    {<<>>} \cup {<<f>> \o rest : f \in FirstTokens, rest \in SeqsUpTo(ArgTokens, MaxArgs)}

\* os.getenv('GITHUB_TOKEN') once load_dotenv() has run: unset, set to the
\* empty string, or set to a token
TokenValues == {"None", "", "ghp_token"}

-----------------------------------------------------------------------------
(* The declarations of cli.py                                              *)

Commands == {"create", "delete", "validate", "version"}

DifficultyChoices == {"beginner", "intermediate", "advanced"}
LanguageChoices == {"ru", "en"}

HelpOption == ("--help" :> [name |-> "help", is_flag |-> TRUE])

GroupOptions ==
    ("--version" :> [name |-> "version", is_flag |-> TRUE]) @@ HelpOption

CreateOptions ==
    ("--template" :> [name |-> "template", is_flag |-> FALSE])
    @@ ("-t" :> [name |-> "template", is_flag |-> FALSE])
    @@ ("--category" :> [name |-> "category", is_flag |-> FALSE])
    @@ ("-c" :> [name |-> "category", is_flag |-> FALSE])
    @@ ("--difficulty" :> [name |-> "difficulty", is_flag |-> FALSE])
    @@ ("-d" :> [name |-> "difficulty", is_flag |-> FALSE])
    @@ ("--language" :> [name |-> "language", is_flag |-> FALSE])
    @@ ("-l" :> [name |-> "language", is_flag |-> FALSE])
    @@ ("--interactive" :> [name |-> "interactive", is_flag |-> TRUE])
    @@ ("-i" :> [name |-> "interactive", is_flag |-> TRUE])
    @@ HelpOption

DeleteOptions ==
    ("--force" :> [name |-> "force", is_flag |-> TRUE])
    @@ ("-f" :> [name |-> "force", is_flag |-> TRUE])
    @@ ("--remove-repo" :> [name |-> "remove_repo", is_flag |-> TRUE])
    @@ HelpOption

ValidateOptions == HelpOption

VersionOptions == HelpOption

OptionsOf(c) ==
    CASE c = "create" -> CreateOptions
      [] c = "delete" -> DeleteOptions
      [] c = "validate" -> ValidateOptions
      [] OTHER -> VersionOptions

\* variant: a different default language
CreateDefaults_LanguageEn ==
    [template |-> "module-basic", category |-> "programming",
     difficulty |-> "beginner", language |-> "en", interactive |-> FALSE]

\* option defaults of `create` and `delete`; a flag that is not given is False
CreateDefaults ==
    [template |-> "module-basic", category |-> "programming",
     difficulty |-> "beginner", language |-> "ru", interactive |-> FALSE]

DeleteDefaults == [force |-> FALSE, remove_repo |-> FALSE]

\* default of the `path` argument of validate
PathDefault == "."

\* variant: the option is declared without its Choice type
ChoiceOk_AnyValue(name, value) == TRUE

\* click.Choice: the value has to be one of the choices, compared as given
ChoiceOk(name, value) ==
    CASE name = "difficulty" -> value \in DifficultyChoices
      [] name = "language" -> value \in LanguageChoices
      [] OTHER -> TRUE

-----------------------------------------------------------------------------
(* click's option parser, for the option tables above                      *)

AppendNew(order, name) ==
    IF \E i \in 1..Len(order) : order[i] = name THEN order ELSE Append(order, name)

ParseState(error, bad, opts, largs, order) ==
    [error |-> error, bad |-> bad, opts |-> opts, largs |-> largs, order |-> order]

\* Tokens are consumed left to right.  A token that starts with "-" has to
\* be an option of the table: a flag is set, any other option takes the next
\* token, whatever it is, as its value (the last value wins).  Other tokens
\* are positional; a command collects them (interspersed), a group stops at
\* the first one and leaves the rest of the line to the sub-command.
RECURSIVE parse_args(_, _, _, _, _, _)
parse_args(table, interspersed, rargs, opts, largs, order) ==
    IF rargs = <<>> THEN ParseState("none", "", opts, largs, order)
    ELSE LET arg == Head(rargs) IN
         IF arg \in DashTokens
         THEN IF arg \notin DOMAIN table
              THEN ParseState("NoSuchOption", arg, opts, largs, order)
              ELSE LET o == table[arg] IN
                   IF o.is_flag
                   THEN parse_args(table, interspersed, Tail(rargs),
                                   (o.name :> TRUE) @@ opts, largs,
                                   AppendNew(order, o.name))
                   ELSE IF Len(rargs) < 2
                        THEN ParseState("BadOptionUsage", arg, opts, largs, order)
                        ELSE parse_args(table, interspersed, Tail(Tail(rargs)),
                                        (o.name :> rargs[2]) @@ opts, largs,
                                        AppendNew(order, o.name))
         ELSE IF interspersed
              THEN parse_args(table, interspersed, Tail(rargs), opts,
                              Append(largs, arg), order)
              ELSE ParseState("none", "", opts, largs \o rargs, order)

EmptyOpts == [n \in {} |-> TRUE]

\* number of positional arguments a sub-command declares
NArgs(c) == IF c = "version" THEN 0 ELSE 1

\* the first option, in the order of the command line, whose value its type
\* rejects ("" when there is none)
RECURSIVE FirstBad(_, _)
FirstBad(order, opts) ==
    IF order = <<>> THEN ""
    ELSE IF ~ChoiceOk(Head(order), opts[Head(order)]) THEN Head(order)
    ELSE FirstBad(Tail(order), opts)

ChoicesOf(name) ==
    IF name = "difficulty" THEN DifficultyChoices ELSE LanguageChoices

OptionValue(opts, defaults, name) ==
    IF name \in DOMAIN opts THEN opts[name] ELSE defaults[name]

\* the keyword arguments click passes to the callback of sub-command c
CallbackParams(c, p) ==
    CASE c = "create" ->
           [module_name |-> p.largs[1],
            template |-> OptionValue(p.opts, CreateDefaults, "template"),
            category |-> OptionValue(p.opts, CreateDefaults, "category"),
            difficulty |-> OptionValue(p.opts, CreateDefaults, "difficulty"),
            language |-> OptionValue(p.opts, CreateDefaults, "language"),
            interactive |-> OptionValue(p.opts, CreateDefaults, "interactive")]
      [] c = "delete" ->
           [module_name |-> p.largs[1],
            force |-> OptionValue(p.opts, DeleteDefaults, "force"),
            remove_repo |-> OptionValue(p.opts, DeleteDefaults, "remove_repo")]
      [] c = "validate" ->
           [path |-> IF p.largs = <<>> THEN PathDefault ELSE p.largs[1]]
      [] OTHER -> <<>>

\* Command.make_context for sub-command c on the rest of the command line:
\* the parser's own errors first, then the eager --help, then the options in
\* command-line order (Choice validation), then the arguments, then the
\* check for unexpected extra arguments.
SubContext(c, rest) ==
    LET p == parse_args(OptionsOf(c), TRUE, rest, EmptyOpts, <<>>, <<>>)
        bad == FirstBad(p.order, p.opts)
    IN  IF p.error = "NoSuchOption"
        THEN [kind |-> "usage", msg |-> <<"No such option: ", p.bad>>]
        ELSE IF p.error = "BadOptionUsage"
        THEN [kind |-> "usage", msg |-> <<"Option requires an argument: ", p.bad>>]
        ELSE IF "help" \in DOMAIN p.opts
        THEN [kind |-> "help", msg |-> <<>>]
        ELSE IF bad # ""
        THEN [kind |-> "usage",
              msg |-> <<"Invalid value for ", bad, p.opts[bad], ChoicesOf(bad)>>]
        ELSE IF c \in {"create", "delete"} /\ p.largs = <<>>
        THEN [kind |-> "usage", msg |-> <<"Missing argument ", "MODULE_NAME">>]
        ELSE IF Len(p.largs) > NArgs(c)
        THEN [kind |-> "usage", msg |-> <<"Got unexpected extra argument">>]
        ELSE [kind |-> "ok", msg |-> <<>>, params |-> CallbackParams(c, p)]

-----------------------------------------------------------------------------
(* Output, handler calls and exceptions                                    *)

Echo(by, chan, data) == [kind |-> "echo", by |-> by, chan |-> chan, data |-> data]

Call(by, fn, data) == [kind |-> "call", by |-> by, chan |-> fn, data |-> data]

NoException == [cls |-> "none", origin |-> "none", msg |-> <<>>, code |-> 0]

\* click.exceptions.Exit, raised by ctx.exit(code)
ExitException(code) == [cls |-> "Exit", origin |-> "click", msg |-> <<>>, code |-> code]

\* click.UsageError raised by click's parsing; its exit_code is 2
UsageError(msg) == [cls |-> "UsageError", origin |-> "click", msg |-> msg, code |-> 2]

\* the three lines the group callback prints when the token is missing
WarningLines ==
    << Echo("cli", "stdout", <<"Warning: GITHUB_TOKEN not found in environment">>),
       Echo("cli", "stdout", <<"Some features may not work properly.">>),
       Echo("cli", "stdout", <<"Please set GITHUB_TOKEN in your .env file.">>) >>

\* the message of click.version_option(version="0.1.0", prog_name="info_tech_cli")
VersionOptionMessage == <<"info_tech_cli", ", version ", "0.1.0">>

HelpPage(name) == <<"Usage: ", name, " [OPTIONS]">>

\* variant: the credential check is dropped
TokenMissing_Never(value) == FALSE

\* `not github_token`: None and the empty string are both falsy
TokenMissing(value) == value = "None" \/ value = ""

-----------------------------------------------------------------------------
(* The invocation context                                                  *)

\* main passes obj={} to the group: cli(obj={})
MainObj == "dict"

\* ctx.ensure_object(dict): an object that is missing is created
ensure_object(obj) == IF obj = "None" THEN "dict" ELSE obj

\* variant: the sub-command's context does not take over its parent's obj
SubContextObj_NoParent(parentObj) == "None"

\* @click.pass_context hands the callback the context of the sub-command,
\* whose obj is the obj of its parent, the group's context
SubContextObj(parentObj) == parentObj

-----------------------------------------------------------------------------
(* The handlers' side of the interface                                     *)

\* what a handler may do: return, or raise one of the exception classes
\* that click's standalone mode and main tell apart
HandlerOutcomes ==
    {"return", "Exception", "ClickException", "UsageError", "Abort", "EOFError"}

HandlerException(cls) ==
    [cls |-> cls, origin |-> "handler", msg |-> <<"boom">>,
     code |-> IF cls = "UsageError" THEN 2 ELSE 1]

KeyboardInterrupt ==
    [cls |-> "KeyboardInterrupt", origin |-> "signal", msg |-> <<>>, code |-> 1]

\* the positional arguments of the two handler calls
CreateCallArgs(ctx, p) ==
    <<ctx, p.module_name, p.template, p.category, p.difficulty, p.language,
      p.interactive>>

DeleteCallArgs(ctx, p) == <<ctx, p.module_name, p.force, p.remove_repo>>

\* the prefix of the message main prints for an exception (a cross mark
\* followed by "Error: ")
FailureMarker == "(x) Error: "

CancelNotice == <<"\n", "(!) Operation cancelled by user">>

-----------------------------------------------------------------------------
(* Initial state: the process has been started, cli.py has been imported   *)
(* (load_dotenv has run) and main() has entered its try block.             *)

Init ==
    /\ argv \in Argvs
    /\ environ \in TokenValues
    /\ pc = "main"
    /\ cmd = ""
    /\ args = <<>>
    /\ params = <<>>
    /\ groupObj = "None"
    /\ ctxObj = "None"
    /\ events = <<>>
    /\ exc = NoException
    /\ exitCode = -1

Raise(e) == pc' = "raised" /\ exc' = e

\* the positions at which control is inside the try block of click's main()
InClick ==
    {"invoke", "cli", "sub_context", "create", "delete", "validate", "version",
     "create_module", "delete_module", "returned"}

-----------------------------------------------------------------------------
(* Actions                                                                 *)

\* main calls cli(obj={}): click builds the group's context and parses the
\* group's part of the command line.  No arguments at all shows the help
\* page (exit 0 before click 8.2, a usage error since); --version and --help
\* are eager: the first one given prints and exits before any callback.
make_context ==
    /\ pc = "main"
    /\ groupObj' = MainObj
    /\ IF argv = <<>>
       THEN \/ /\ events' = Append(events, Echo("click", "stdout", HelpPage("info_tech_cli")))
               /\ Raise(ExitException(0))
               /\ args' = args
            \/ /\ events' = events
               /\ Raise([cls |-> "NoArgsIsHelpError", origin |-> "click",
                         msg |-> HelpPage("info_tech_cli"), code |-> 2])
               /\ args' = args
       ELSE LET p == parse_args(GroupOptions, FALSE, argv, EmptyOpts, <<>>, <<>>) IN
            IF p.error # "none"
            THEN /\ Raise(UsageError(<<"No such option: ", p.bad>>))
                 /\ UNCHANGED <<events, args>>
            ELSE IF p.order # <<>>
            THEN /\ events' = Append(events,
                        Echo("click", "stdout",
                             IF p.order[1] = "version" THEN VersionOptionMessage
                             ELSE HelpPage("info_tech_cli")))
                 /\ Raise(ExitException(0))
                 /\ args' = args
            ELSE /\ args' = p.largs
                 /\ pc' = "invoke"
                 /\ UNCHANGED <<events, exc>>
    /\ UNCHANGED <<argv, environ, cmd, params, ctxObj, exitCode>>

\* the group looks the first remaining token up among its commands, before
\* it runs its own callback
resolve_command ==
    /\ pc = "invoke"
    /\ IF args[1] \in Commands
       THEN /\ cmd' = args[1]
            /\ args' = Tail(args)
            /\ pc' = "cli"
            /\ exc' = exc
       ELSE /\ Raise(UsageError(<<"No such command ", args[1]>>))
            /\ UNCHANGED <<cmd, args>>
    /\ UNCHANGED <<argv, environ, params, groupObj, ctxObj, events, exitCode>>

\* variant: the missing token is an error
cli_Fatal ==
    /\ pc = "cli"
    /\ groupObj' = ensure_object(groupObj)
    /\ IF TokenMissing(environ)
       THEN /\ events' = events \o WarningLines
            /\ Raise([cls |-> "ClickException", origin |-> "cli",
                      msg |-> <<"GITHUB_TOKEN not found">>, code |-> 1])
       ELSE /\ events' = events
            /\ pc' = "sub_context"
            /\ exc' = exc
    /\ UNCHANGED <<argv, environ, cmd, args, params, ctxObj, exitCode>>

\* the group callback
cli ==
    /\ pc = "cli"
    /\ groupObj' = ensure_object(groupObj)
    /\ events' = IF TokenMissing(environ) THEN events \o WarningLines ELSE events
    /\ pc' = "sub_context"
    /\ UNCHANGED <<argv, environ, cmd, args, params, ctxObj, exc, exitCode>>

\* click builds the sub-command's context and parses its arguments
sub_make_context ==
    /\ pc = "sub_context"
    /\ ctxObj' = SubContextObj(groupObj)
    /\ LET r == SubContext(cmd, args) IN
       CASE r.kind = "usage" ->
              /\ Raise(UsageError(r.msg))
              /\ UNCHANGED <<events, params>>
         [] r.kind = "help" ->
              /\ events' = Append(events, Echo("click", "stdout", HelpPage(cmd)))
              /\ Raise(ExitException(0))
              /\ params' = params
         [] OTHER ->
              /\ params' = r.params
              /\ pc' = cmd
              /\ UNCHANGED <<events, exc>>
    /\ UNCHANGED <<argv, environ, cmd, args, groupObj, exitCode>>

create ==
    /\ pc = "create"
    /\ events' = Append(events, Call("create", "create_module", CreateCallArgs(ctxObj, params)))
    /\ pc' = "create_module"
    /\ UNCHANGED <<argv, environ, cmd, args, params, groupObj, ctxObj, exc, exitCode>>

delete ==
    /\ pc = "delete"
    /\ events' = Append(events, Call("delete", "delete_module", DeleteCallArgs(ctxObj, params)))
    /\ pc' = "delete_module"
    /\ UNCHANGED <<argv, environ, cmd, args, params, groupObj, ctxObj, exc, exitCode>>

\* a handler runs and ends, normally or with an exception
HandlerEnds(at) ==
    /\ pc = at
    /\ \E o \in HandlerOutcomes :
         IF o = "return" THEN pc' = "returned" /\ exc' = exc
         ELSE Raise(HandlerException(o))
    /\ UNCHANGED <<argv, environ, cmd, args, params, groupObj, ctxObj, events, exitCode>>

create_module == HandlerEnds("create_module")

delete_module == HandlerEnds("delete_module")

\* variant: the stub raises instead of reporting
validate_NotImplemented ==
    /\ pc = "validate"
    /\ events' = events
    /\ Raise([cls |-> "Exception", origin |-> "validate",
              msg |-> <<"not implemented">>, code |-> 1])
    /\ UNCHANGED <<argv, environ, cmd, args, params, groupObj, ctxObj, exitCode>>

validate ==
    /\ pc = "validate"
    /\ events' = events \o
          << Echo("validate", "stdout", <<"Validating module at: ", params.path>>),
             Echo("validate", "stdout", <<"Validation feature coming soon...">>) >>
    /\ pc' = "returned"
    /\ UNCHANGED <<argv, environ, cmd, args, params, groupObj, ctxObj, exc, exitCode>>

\* variant: the sub-command prints the message of the --version option
version_OptionMessage ==
    /\ pc = "version"
    /\ events' = events \o
          << Echo("version", "stdout", VersionOptionMessage),
             Echo("version", "stdout", <<"InfoTech.io Educational Platform CLI">>),
             Echo("version", "stdout", <<"Author: A1eksMa <a1ex_ma@mail.ru>">>) >>
    /\ pc' = "returned"
    /\ UNCHANGED <<argv, environ, cmd, args, params, groupObj, ctxObj, exc, exitCode>>

version ==
    /\ pc = "version"
    /\ events' = events \o
          << Echo("version", "stdout", <<"info_tech_cli version 0.1.0">>),
             Echo("version", "stdout", <<"InfoTech.io Educational Platform CLI">>),
             Echo("version", "stdout", <<"Author: A1eksMa <a1ex_ma@mail.ru>">>) >>
    /\ pc' = "returned"
    /\ UNCHANGED <<argv, environ, cmd, args, params, groupObj, ctxObj, exc, exitCode>>

\* a SIGINT is delivered: Python raises KeyboardInterrupt where control is.
\* Before click has entered its try block the exception leaves cli() at once.
SIGINT ==
    /\ pc \in InClick \cup {"main"}
    /\ pc' = IF pc = "main" THEN "propagated" ELSE "raised"
    /\ exc' = KeyboardInterrupt
    /\ UNCHANGED <<argv, environ, cmd, args, params, groupObj, ctxObj, events, exitCode>>

\* standalone mode: when the callback has returned click calls ctx.exit()
standalone_exit ==
    /\ pc = "returned"
    /\ Raise(ExitException(0))
    /\ UNCHANGED <<argv, environ, cmd, args, params, groupObj, ctxObj, events, exitCode>>

SysExit(code) == pc' = "exited" /\ exitCode' = code

Aborted == Echo("click", "stderr", <<"Aborted!">>)

\* variant: the group is called with standalone_mode=False; click then
\* re-raises its own exceptions (an interrupt as Abort) and returns the exit
\* code of Exit instead of exiting
standalone_except_NotStandalone ==
    /\ pc = "raised"
    /\ CASE exc.cls \in {"KeyboardInterrupt", "EOFError"} ->
              /\ events' = Append(events, Echo("click", "stderr", <<>>))
              /\ exc' = [exc EXCEPT !.cls = "Abort"]
              /\ pc' = "propagated"
              /\ exitCode' = exitCode
         [] exc.cls = "Exit" ->
              /\ events' = events
              /\ exc' = exc
              /\ SysExit(0)
         [] OTHER ->
              /\ pc' = "propagated"
              /\ UNCHANGED <<events, exitCode, exc>>
    /\ UNCHANGED <<argv, environ, cmd, args, params, groupObj, ctxObj>>

\* the except clauses of click's main() in standalone mode.  sys.exit raises
\* SystemExit, which none of main's clauses catches.
standalone_except ==
    /\ pc = "raised"
    /\ CASE exc.cls \in {"KeyboardInterrupt", "EOFError"} ->
              /\ events' = events \o <<Echo("click", "stderr", <<>>), Aborted>>
              /\ SysExit(1)
         [] exc.cls = "Abort" ->
              /\ events' = Append(events, Aborted)
              /\ SysExit(1)
         [] exc.cls = "UsageError" ->
              /\ events' = events \o
                    << Echo("click", "stderr", <<"Usage: ">>),
                       Echo("click", "stderr", <<"Error: ">> \o exc.msg) >>
              /\ SysExit(exc.code)
         [] exc.cls = "NoArgsIsHelpError" ->
              /\ events' = Append(events, Echo("click", "stderr", exc.msg))
              /\ SysExit(exc.code)
         [] exc.cls = "ClickException" ->
              /\ events' = Append(events, Echo("click", "stderr", <<"Error: ">> \o exc.msg))
              /\ SysExit(exc.code)
         [] exc.cls = "Exit" ->
              /\ events' = events
              /\ SysExit(exc.code)
         [] OTHER ->
              /\ pc' = "propagated"
              /\ UNCHANGED <<events, exitCode>>
    /\ UNCHANGED <<argv, environ, cmd, args, params, groupObj, ctxObj, exc>>

\* main: except KeyboardInterrupt
main_KeyboardInterrupt ==
    /\ pc = "propagated"
    /\ exc.cls = "KeyboardInterrupt"
    /\ events' = Append(events, Echo("main", "stdout", CancelNotice))
    /\ SysExit(1)
    /\ UNCHANGED <<argv, environ, cmd, args, params, groupObj, ctxObj, exc>>

\* variant: the message is printed but sys.exit(1) is missing
main_Exception_ExitsZero ==
    /\ pc = "propagated"
    /\ exc.cls # "KeyboardInterrupt"
    /\ events' = Append(events, Echo("main", "stderr", <<FailureMarker>> \o exc.msg))
    /\ SysExit(0)
    /\ UNCHANGED <<argv, environ, cmd, args, params, groupObj, ctxObj, exc>>

\* variant: main runs the command again after a failure
main_Exception_Retries ==
    /\ pc = "propagated"
    /\ exc.cls # "KeyboardInterrupt"
    /\ events' = Append(events, Echo("main", "stderr", <<FailureMarker>> \o exc.msg))
    /\ pc' = "main"
    /\ exc' = NoException
    /\ UNCHANGED <<argv, environ, cmd, args, params, groupObj, ctxObj, exitCode>>

\* main: except Exception as e
main_Exception ==
    /\ pc = "propagated"
    /\ exc.cls # "KeyboardInterrupt"
    /\ events' = Append(events, Echo("main", "stderr", <<FailureMarker>> \o exc.msg))
    /\ SysExit(1)
    /\ UNCHANGED <<argv, environ, cmd, args, params, groupObj, ctxObj, exc>>

Next ==
    \/ make_context
    \/ resolve_command
    \/ cli
    \/ sub_make_context
    \/ create
    \/ delete
    \/ create_module
    \/ delete_module
    \/ validate
    \/ version
    \/ SIGINT
    \/ standalone_exit
    \/ standalone_except
    \/ main_KeyboardInterrupt
    \/ main_Exception

Spec == Init /\ [][Next]_vars

-----------------------------------------------------------------------------
(* Vocabulary of the properties                                            *)

Exited == pc = "exited"

\* the run was interrupted by the user
Interrupted == exc.origin = "signal"

IsCall(e, fn) == e.kind = "call" /\ e.chan = fn

IsEcho(e, by, chan, data) ==
    e.kind = "echo" /\ e.by = by /\ e.chan = chan /\ e.data = data

CallIndexes == {k \in 1..Len(events) : events[k].kind = "call"}

LastEvent == events[Len(events)]

\* the variable is not set in the environment
Unset == environ = "None"

WarningCount ==
    Cardinality({k \in 1..Len(events) :
        IsEcho(events[k], "cli", "stdout",
               <<"Warning: GITHUB_TOKEN not found in environment">>)})

\* a command line without any option: the command and at most one word
PlainLine(c) ==
    /\ Len(argv) \in {1, 2}
    /\ argv[1] = c
    /\ Len(argv) = 2 => argv[2] \notin DashTokens

\* position i holds the only option of the command line, one of `flags`
\* (position i + 1, its value when it takes one, may be any token)
OnlyOptionAt(i, flags, hasValue) ==
    /\ i \in 2..Len(argv)
    /\ argv[i] \in flags
    /\ hasValue => i + 1 <= Len(argv)
    /\ \A j \in 2..Len(argv) :
         j # i /\ ~(hasValue /\ j = i + 1) => argv[j] \notin DashTokens

-----------------------------------------------------------------------------
(* C1: a `create` whose --difficulty value is outside {beginner,           *)
(* intermediate, advanced} or whose --language value is outside {ru, en}   *)
(* ends with a usage error that names the allowed values, with an exit     *)
(* code that is neither 0 nor 1, and create_module is never called; no     *)
(* call of create_module ever carries a value outside the two sets.        *)

BadDifficultyGiven ==
    \E i \in 2..Len(argv) :
        /\ OnlyOptionAt(i, {"-d", "--difficulty"}, TRUE)
        /\ argv[i + 1] \notin {"beginner", "intermediate", "advanced"}

BadLanguageGiven ==
    \E i \in 2..Len(argv) :
        /\ OnlyOptionAt(i, {"-l", "--language"}, TRUE)
        /\ argv[i + 1] \notin {"ru", "en"}

CreateWithBadChoice ==
    /\ argv # <<>>
    /\ argv[1] = "create"
    /\ BadDifficultyGiven \/ BadLanguageGiven

C1_InvalidChoiceIsUsageError ==
    /\ CreateWithBadChoice =>
         /\ CallIndexes = {}
         /\ pc \notin {"create", "create_module", "returned"}
         /\ Exited /\ ~Interrupted =>
              /\ exitCode \notin {0, 1}
              /\ LastEvent.chan = "stderr"
              /\ LastEvent.data[1] = "Error: "
              /\ LastEvent.data[2] = "Invalid value for "
              /\ LastEvent.data[5] =
                    IF BadDifficultyGiven
                    THEN {"beginner", "intermediate", "advanced"}
                    ELSE {"ru", "en"}
    /\ \A k \in CallIndexes :
         IsCall(events[k], "create_module") =>
            /\ events[k].data[5] \in {"beginner", "intermediate", "advanced"}
            /\ events[k].data[6] \in {"ru", "en"}

C1_Witness ==
    /\ Exited
    /\ argv = <<"create", "python-basics", "--language", "expert">>
    /\ exitCode = 2
    /\ CallIndexes = {}

-----------------------------------------------------------------------------
(* C2: `create python-basics` calls create_module exactly once with        *)
(* name=python-basics, template=module-basic, category=programming,        *)
(* difficulty=beginner, language=ru, interactive=false; an option that is  *)
(* not on the command line reaches the handler as its documented default   *)
(* and an option that is given reaches it unchanged.                       *)

FlagsOf(name) ==
    CASE name = "template" -> {"--template", "-t"}
      [] name = "category" -> {"--category", "-c"}
      [] name = "difficulty" -> {"--difficulty", "-d"}
      [] name = "language" -> {"--language", "-l"}
      [] OTHER -> {"--interactive", "-i"}

\* position of an option in the handler's argument list, and its default
ArgPos(name) ==
    CASE name = "template" -> 3
      [] name = "category" -> 4
      [] name = "difficulty" -> 5
      [] name = "language" -> 6
      [] OTHER -> 7

DocumentedDefault(name) ==
    CASE name = "template" -> "module-basic"
      [] name = "category" -> "programming"
      [] name = "difficulty" -> "beginner"
      [] name = "language" -> "ru"
      [] OTHER -> FALSE

ValueOptions == {"template", "category", "difficulty", "language"}

C2_DefaultsAndGivenOptions ==
    /\ \A k \in CallIndexes :
         IsCall(events[k], "create_module") =>
           LET a == events[k].data IN
           /\ argv = <<"create", "python-basics">> =>
                a = <<"dict", "python-basics", "module-basic", "programming",
                      "beginner", "ru", FALSE>>
           /\ \A name \in ValueOptions \cup {"interactive"} :
                (\A j \in 1..Len(argv) : argv[j] \notin FlagsOf(name)) =>
                    a[ArgPos(name)] = DocumentedDefault(name)
           /\ \A name \in ValueOptions :
                \A i \in 2..Len(argv) :
                    OnlyOptionAt(i, FlagsOf(name), TRUE) =>
                        a[ArgPos(name)] = argv[i + 1]
           /\ (\E i \in 2..Len(argv) : OnlyOptionAt(i, FlagsOf("interactive"), FALSE)) =>
                a[7] = TRUE
           /\ (\A j \in 1..Len(argv) : argv[j] \notin DashTokens) => a[2] = argv[2]
    /\ argv = <<"create", "python-basics">> =>
         /\ Cardinality(CallIndexes) <= 1
         /\ pc \in {"create_module", "returned"} => Cardinality(CallIndexes) = 1
         /\ Exited /\ ~Interrupted => Cardinality(CallIndexes) = 1

C2_Witness ==
    /\ pc = "create_module"
    /\ argv = <<"create", "python-basics">>
    /\ Cardinality(CallIndexes) = 1

-----------------------------------------------------------------------------
(* C3: with GITHUB_TOKEN unset, whatever a sub-command prints and the      *)
(* handler call it makes come after the three warning lines, and the       *)
(* sub-command still runs to completion: the handler is called and the     *)
(* exit code is the one the sub-command itself produces (0 when it         *)
(* returns).                                                               *)

C3_WarningFirstAndNonFatal ==
    Unset =>
      /\ \A k \in 1..Len(events) :
            events[k].by \in {"create", "delete", "validate", "version"} =>
               /\ k > 3
               /\ \A w \in 1..3 :
                     /\ events[w].kind = "echo"
                     /\ events[w].by = "cli"
               /\ events[1].data = <<"Warning: GITHUB_TOKEN not found in environment">>
      /\ pc \in {"sub_context", "create", "delete", "validate", "version"} =>
            exc.cls = "none"
      /\ \A c \in {"create", "delete"} :
            PlainLine(c) /\ Len(argv) = 2 /\ Exited /\ ~Interrupted =>
               /\ \E k \in CallIndexes : events[k].by = c
               /\ exc.origin # "handler" => exitCode = 0
      /\ \A c \in {"validate", "version"} :
            PlainLine(c) /\ (c = "version" => Len(argv) = 1) /\ Exited /\ ~Interrupted =>
               /\ \E k \in 1..Len(events) : events[k].by = c
               /\ exitCode = 0

C3_Witness ==
    /\ Exited
    /\ Unset
    /\ argv = <<"delete", "module-x">>
    /\ exitCode = 0
    /\ WarningCount = 1
    /\ IsCall(events[4], "delete_module")

-----------------------------------------------------------------------------
(* C4 as stated: with GITHUB_TOKEN unset every invocation of the group,    *)
(* with a sub-command or with the global option --version, prints the      *)
(* warning exactly once.                                                   *)

C4_Original ==
    /\ Exited
    /\ Unset
    /\ ~Interrupted
    /\ argv # <<>>
    /\ argv[1] \in {"create", "delete", "validate", "version", "--version"}
    => WarningCount = 1

(* C4 as amended: the credential check is made at most once per            *)
(* invocation, in the group callback.  With GITHUB_TOKEN unset the warning *)
(* is printed exactly once as soon as a sub-command has been resolved      *)
(* (also when its own arguments are rejected afterwards) and the check     *)
(* raises nothing; an invocation that ends in the group's own parsing      *)
(* (--version, --help, no arguments, an unknown option or command) prints  *)
(* it zero times.                                                          *)

C4_WarningAtMostOnce ==
    /\ WarningCount <= 1
    /\ environ = "ghp_token" => WarningCount = 0
    /\ Unset /\ pc \in InClick \ {"invoke", "cli"} => WarningCount = 1
    /\ pc = "sub_context" => exc.cls = "none"
    /\ Unset /\ Exited /\ ~Interrupted /\ argv # <<>>
         /\ argv[1] \in {"create", "delete", "validate", "version"}
         => WarningCount = 1
    /\ Exited /\ (argv = <<>> \/ argv[1] \notin {"create", "delete", "validate", "version"})
         => WarningCount = 0

C4_Witness ==
    /\ Exited
    /\ Unset
    /\ argv = <<"create", "python-basics", "-d", "expert">>
    /\ WarningCount = 1
    /\ exitCode = 2

-----------------------------------------------------------------------------
(* C5: a user interrupt while a sub-command is executing ends the process  *)
(* with exit code 1 after a cancellation notice, and that notice is not    *)
(* the message of a generic handler failure, which carries the failure     *)
(* marker.                                                                 *)

CancellationNotices ==
    {Echo("click", "stderr", <<"Aborted!">>),
     Echo("main", "stdout", <<"\n", "(!) Operation cancelled by user">>)}

HasFailureMarker(e) ==
    /\ e.kind = "echo"
    /\ e.data # <<>>
    /\ e.data[1] = "(x) Error: "

C5_InterruptIsCancellation ==
    /\ Exited /\ Interrupted /\ cmd # "" =>
         /\ exitCode = 1
         /\ LastEvent \in CancellationNotices
         /\ \A k \in 1..Len(events) : ~HasFailureMarker(events[k])
    /\ Exited /\ exc.origin = "handler" /\ exc.cls = "Exception" =>
         /\ HasFailureMarker(LastEvent)
         /\ LastEvent \notin CancellationNotices

C5_Witness ==
    /\ Exited
    /\ Interrupted
    /\ argv = <<"delete", "module-x">>
    /\ \E k \in CallIndexes : IsCall(events[k], "delete_module")
    /\ exitCode = 1

-----------------------------------------------------------------------------
(* C6 as stated: every exception other than a user interrupt that escapes  *)
(* a handler is caught in main, printed on the error stream with the       *)
(* failure marker, and ends the process with exit code 1.                  *)

C6_Original ==
    Exited /\ exc.origin = "handler" =>
       /\ exitCode = 1
       /\ LastEvent.by = "main"
       /\ LastEvent.chan = "stderr"
       /\ HasFailureMarker(LastEvent)

(* C6 as amended: an exception that escapes a handler and that click's     *)
(* standalone mode does not handle itself is caught in main, printed on    *)
(* the error stream with the failure marker, exit code 1.  A               *)
(* ClickException is reported by click as "Error: <message>" on the error  *)
(* stream, without the marker, with the exception's own exit code (1, or 2 *)
(* for a UsageError); Abort and EOFError print "Aborted!", exit code 1.    *)
(* No handler failure ends without a message on the error stream or with   *)
(* exit code 0.                                                            *)

C6_HandlerFailureVisible ==
    Exited /\ exc.origin = "handler" =>
       /\ exitCode # 0
       /\ LastEvent.kind = "echo"
       /\ LastEvent.chan = "stderr"
       /\ LastEvent.data # <<>>
       /\ exc.cls = "Exception" =>
            /\ exitCode = 1
            /\ LastEvent.by = "main"
            /\ LastEvent.data = <<"(x) Error: ", "boom">>
       /\ exc.cls \in {"ClickException", "UsageError"} =>
            /\ exitCode = (IF exc.cls = "UsageError" THEN 2 ELSE 1)
            /\ LastEvent.by = "click"
            /\ LastEvent.data = <<"Error: ", "boom">>
       /\ exc.cls \in {"Abort", "EOFError"} =>
            /\ exitCode = 1
            /\ LastEvent.data = <<"Aborted!">>

C6_Witness ==
    /\ Exited
    /\ exc.origin = "handler"
    /\ exc.cls = "Exception"
    /\ exitCode = 1
    /\ HasFailureMarker(LastEvent)

-----------------------------------------------------------------------------
(* C7: `validate`, for every path argument and for the default ".", and    *)
(* whatever the environment holds, prints the line that contains the path  *)
(* and then the "coming soon" line, ends with exit code 0 and calls no     *)
(* handler.                                                                *)

GivenPath == IF Len(argv) = 2 THEN argv[2] ELSE "."

C7_ValidateIsStub ==
    PlainLine("validate") =>
       /\ CallIndexes = {}
       /\ pc \notin {"create", "delete", "version", "create_module", "delete_module"}
       /\ Exited /\ ~Interrupted =>
            /\ exitCode = 0
            /\ \E k \in 1..(Len(events) - 1) :
                  /\ IsEcho(events[k], "validate", "stdout",
                            <<"Validating module at: ", GivenPath>>)
                  /\ IsEcho(events[k + 1], "validate", "stdout",
                            <<"Validation feature coming soon...">>)
                  /\ k + 1 = Len(events)

C7_Witness ==
    /\ Exited
    /\ argv = <<"validate">>
    /\ exitCode = 0
    /\ IsEcho(events[Len(events) - 1], "validate", "stdout",
              <<"Validating module at: ", ".">>)

-----------------------------------------------------------------------------
(* C8: the `version` sub-command prints the line                           *)
(* "info_tech_cli version 0.1.0" and ends with exit code 0, whether or not *)
(* GITHUB_TOKEN is set, and calls no handler.                              *)

C8_VersionLiteral ==
    argv = <<"version">> =>
       /\ CallIndexes = {}
       /\ Exited /\ ~Interrupted =>
            /\ exitCode = 0
            /\ \E k \in 1..Len(events) :
                  /\ IsEcho(events[k], "version", "stdout", <<"info_tech_cli version 0.1.0">>)
                  /\ \A j \in 1..(k - 1) : events[j].by = "cli"

C8_Witness ==
    /\ Exited
    /\ argv = <<"version">>
    /\ Unset
    /\ exitCode = 0
    /\ IsEcho(events[4], "version", "stdout", <<"info_tech_cli version 0.1.0">>)

-----------------------------------------------------------------------------
(* C9: whenever a handler is executing, the invocation context object      *)
(* exists: it was created before the handler was called and it is the      *)
(* object the handler received.                                            *)

C9_ContextExistsInHandler ==
    /\ pc \in {"create_module", "delete_module"} =>
          /\ ctxObj # "None"
          /\ groupObj # "None"
    /\ \A k \in CallIndexes : events[k].data[1] # "None"

C9_Witness ==
    /\ pc = "delete_module"
    /\ ctxObj = "dict"
    /\ events[Len(events)].data[1] = "dict"

-----------------------------------------------------------------------------
(* C10: one process invocation makes at most one handler call:             *)
(* create_module only for `create`, delete_module only for `delete`, none  *)
(* for `validate`, `version` or a usage error; once a handler has failed   *)
(* or the run was interrupted no handler is called any more.               *)

C10_SingleShot ==
    /\ Cardinality(CallIndexes) <= 1
    /\ \A k \in CallIndexes :
          /\ argv[1] \in {"create", "delete"}
          /\ events[k].chan = (IF argv[1] = "create" THEN "create_module" ELSE "delete_module")
    /\ exc.cls \in {"UsageError", "NoArgsIsHelpError"} /\ exc.origin = "click" => CallIndexes = {}
    /\ exc.origin \in {"handler", "signal"} =>
          pc \notin {"main", "invoke", "cli", "sub_context", "create", "delete"}

C10_Witness ==
    /\ Exited
    /\ exc.origin = "handler"
    /\ Cardinality(CallIndexes) = 1
    /\ argv[1] = "create"

====
